---- MODULE Spec2Model ----
(***************************************************************************)
(* Batch text-to-speech generation of src/app.py (main, generate_tts,      *)
(* create_wave_file): one Streamlit session holding an uploaded script,    *)
(* the batch loop over its rows, and the results kept in session state.    *)
(* Strings are sequences of one-character strings, so that trimming, the   *)
(* zero-padded default name and the path of a file are computed.           *)
(***************************************************************************)
EXTENDS Integers, Sequences, FiniteSets, TLC

\* Longest script (number of CSV rows) explored.
MaxRows == 3

\* Length of the text preview kept with an artifact.
PreviewLen == 50

VARIABLES
    df_loaded,                \* 'df' in st.session_state
    df,                       \* st.session_state.df: the rows of the script
    session_generated_files,  \* st.session_state.generated_files
    zip_data,                 \* st.session_state.zip_data (present / entries)
    zip_same_run,             \* history: zip_data was assembled by the run that stored session_generated_files
    pc,                       \* position of the script run
    idx,                      \* loop variable of df.iterrows()
    generated_files,          \* local list of the running batch
    pcm_data,                 \* value returned by generate_tts
    temp_dir,                 \* files of the temporary directory: filename -> bytes
    progress_bar,             \* last value given to progress_bar.progress
    status_text,              \* last text given to status_text.text
    outcome,                  \* per row: "pending", "skipped", "failed", "faulted", "ok"
    calls,                    \* per row: calls of client.models.generate_content
    warnings,                 \* per row: st.warning notifications
    errors,                   \* per row: st.error notifications
    delay_due,                \* a generate_tts call was made and time.sleep has not run since
    download_offered          \* the ZIP download button was rendered by the last script run

vars == <<df_loaded, df, session_generated_files, zip_data, zip_same_run, pc, idx,
          generated_files, pcm_data, temp_dir, progress_bar, status_text, outcome,
          calls, warnings, errors, delay_due, download_offered>>

session == <<df_loaded, df, session_generated_files, zip_data, zip_same_run>>

-----------------------------------------------------------------------------
\* Cells of the data frame: a missing value (NaN / pd.NA), a string, or a
\* number (what read_csv makes of a cell that holds digits only).

NA == [kind |-> "na", val |-> <<>>]

Str(s) == [kind |-> "str", val |-> s]

Num(n) == [kind |-> "num", val |-> <<n>>]

\* pd.isna(x)
isna(cell) == cell.kind = "na"

Whitespace == {" ", "\t"}

RECURSIVE LStrip(_)
LStrip(s) ==
    IF s # <<>> /\ Head(s) \in Whitespace THEN LStrip(Tail(s)) ELSE s

RECURSIVE RStrip(_)
RStrip(s) ==
    IF s # <<>> /\ s[Len(s)] \in Whitespace THEN RStrip(SubSeq(s, 1, Len(s) - 1)) ELSE s

Strip(s) == RStrip(LStrip(s))

Digit(d) == <<"0", "1", "2", "3", "4", "5", "6", "7", "8", "9">>[d + 1]

RECURSIVE Decimal(_)
Decimal(n) == IF n < 10 THEN <<Digit(n)>> ELSE Decimal(n \div 10) \o <<Digit(n % 10)>>

RECURSIVE ZeroPad(_, _)
ZeroPad(s, width) == IF Len(s) >= width THEN s ELSE ZeroPad(<<"0">> \o s, width)

\* str(x), also the conversion of an f-string
str(cell) == IF cell.kind = "num" THEN Decimal(cell.val[1]) ELSE cell.val

\* pd.isna(x) or str(x).strip() == ''
IsBlank(cell) == isna(cell) \/ Strip(str(cell)) = <<>>

\* len(x) raises TypeError for a number.
LenFaults(cell) == cell.kind = "num"

\* f"audio_{idx+1:03d}"
DefaultName(i) == <<"a", "u", "d", "i", "o", "_">> \o ZeroPad(Decimal(i + 1), 3)

\* The filename shown in the status line and used for the file.
DisplayFilename(row, i) ==
    IF IsBlank(row.filename) THEN DefaultName(i) ELSE str(row.filename)

FileName(row, i) == DisplayFilename(row, i) \o <<".", "w", "a", "v">>

\* open(os.path.join(temp_dir, filename), 'wb') raises FileNotFoundError when the
\* name leads into a directory, which the fresh temporary directory does not have.
OpenFaults(filename) == \E i \in 1..Len(filename) : filename[i] = "/"

TextPreview(text) ==
    IF Len(text) > PreviewLen
    THEN SubSeq(text, 1, PreviewLen) \o <<".", ".", ".">>
    ELSE text

\* create_wave_file: header fields and the frames as given.
create_wave_file(pcm) ==
    [nchannels |-> 1, sampwidth |-> 2, framerate |-> 24000, frames |-> pcm]

-----------------------------------------------------------------------------
\* Inputs.

RowKinds ==
    { [text |-> Str(<<"h", "i">>), filename |-> NA],
      [text |-> Str(<<"h", "i">>), filename |-> Str(<<"a">>)],
      [text |-> Str(<<"h", "i">>), filename |-> Str(<<"x", "/", "y">>)],
      [text |-> Str(<<" ">>),      filename |-> Str(<<" ">>)],
      [text |-> NA,                filename |-> Str(<<"a">>)],
      [text |-> Num(7),            filename |-> NA] }

Scripts == UNION { [1..n -> RowKinds] : n \in 0..MaxRows }

\* What client.models.generate_content does for one call.
Replies == {"raise", "none", "no_candidates", "no_content", "audio_empty", "audio"}

None == [none |-> TRUE, data |-> <<>>]

Bytes(b) == [none |-> FALSE, data |-> b]

\* Python truth value of the result of generate_tts.
Truthy(p) == ~p.none /\ p.data # <<>>

\* The samples the service returns for row i (each row's audio is its own).
Samples(i) == <<i + 1>>

\* generate_tts: the value returned for a reply of the service.
TtsResult(reply, i) ==
    CASE reply = "audio"       -> Bytes(Samples(i))
      [] reply = "audio_empty" -> Bytes(<<>>)
      [] OTHER                 -> None

\* generate_tts: the replies that end in the except branch (st.error).
TtsRaises(reply) == reply \in {"raise", "no_content"}

-----------------------------------------------------------------------------
\* Widgets.

NoStatus == [kind |-> "empty", k |-> 0, n |-> 0, name |-> <<>>]

Generating(k, n, name) == [kind |-> "generating", k |-> k, n |-> n, name |-> name]

CompleteStatus == [kind |-> "complete", k |-> 0, n |-> 0, name |-> <<>>]

\* A progress value as numerator and denominator.
Ratio(a, b) == <<a, b>>

NoZip == [present |-> FALSE, entries |-> <<>>]

RowFn(v) == [i \in 1..Len(df) |-> v]

Set(f, i, v) == [f EXCEPT ![i] = v]

\* The progress value computed from idx instead of idx + 1.
ProgressFromIndex(i, n) == Ratio(i, n)

\* (idx + 1) / len(df)
Progress(i, n) == Ratio(i + 1, n)

\* Local state of a script run that is not running a batch.
NoLocals ==
    /\ idx' = 0
    /\ generated_files' = <<>>
    /\ pcm_data' = None
    /\ temp_dir' = {}
    /\ progress_bar' = Ratio(0, 1)
    /\ status_text' = NoStatus
    /\ outcome' = <<>>
    /\ calls' = <<>>
    /\ warnings' = <<>>
    /\ errors' = <<>>
    /\ delay_due' = FALSE

-----------------------------------------------------------------------------
Init ==
    /\ df_loaded = FALSE
    /\ df = <<>>
    /\ session_generated_files = <<>>
    /\ zip_data = NoZip
    /\ zip_same_run = FALSE
    /\ pc = "idle"
    /\ idx = 0
    /\ generated_files = <<>>
    /\ pcm_data = None
    /\ temp_dir = {}
    /\ progress_bar = Ratio(0, 1)
    /\ status_text = NoStatus
    /\ outcome = <<>>
    /\ calls = <<>>
    /\ warnings = <<>>
    /\ errors = <<>>
    /\ delay_due = FALSE
    /\ download_offered = FALSE

\* The ZIP button rendered whenever session state has zip_data.
ZipButtonShownForAnyZip(files, zip) == zip.present

\* The results section: the ZIP button is rendered when the stored list is
\* non-empty and session state has zip_data.
ZipButtonShown(files, zip) == files # <<>> /\ zip.present

\* A script is uploaded; the script run stores it and renders the results section.
\* The session's script is uploaded once.
Upload ==
    /\ pc = "idle"
    /\ ~df_loaded
    /\ \E rows \in Scripts : df' = rows
    /\ df_loaded' = TRUE
    /\ download_offered' = ZipButtonShown(session_generated_files, zip_data)
    /\ UNCHANGED <<session_generated_files, zip_data, zip_same_run, pc, idx,
                   generated_files, pcm_data, temp_dir, progress_bar, status_text,
                   outcome, calls, warnings, errors, delay_due>>

\* Where the loop goes after row i.
AfterRow(i) == IF i + 1 < Len(df) THEN "row" ELSE "complete"

\* The generate button is pressed: a new script run starts the batch.
Click ==
    /\ pc = "idle"
    /\ df_loaded
    /\ pc' = IF Len(df) = 0 THEN "complete" ELSE "row"
    /\ idx' = 0
    /\ generated_files' = <<>>
    /\ pcm_data' = None
    /\ temp_dir' = {}
    /\ progress_bar' = Ratio(0, 1)
    /\ status_text' = NoStatus
    /\ outcome' = RowFn("pending")
    /\ calls' = RowFn(0)
    /\ warnings' = RowFn(0)
    /\ errors' = RowFn(0)
    /\ delay_due' = FALSE
    /\ download_offered' = FALSE
    /\ UNCHANGED session

\* Top of the loop body: progress, status line, and the empty-text check.
RowStart ==
    /\ pc = "row"
    /\ progress_bar' = Progress(idx, Len(df))
    /\ status_text' = Generating(idx + 1, Len(df), DisplayFilename(df[idx + 1], idx))
    /\ IF IsBlank(df[idx + 1].text)
       THEN /\ warnings' = Set(warnings, idx + 1, warnings[idx + 1] + 1)
            /\ outcome' = Set(outcome, idx + 1, "skipped")
            /\ pc' = AfterRow(idx)
            /\ idx' = idx + 1
       ELSE /\ pc' = "tts"
            /\ UNCHANGED <<warnings, outcome, idx>>
    /\ UNCHANGED <<session, generated_files, pcm_data, temp_dir, calls, errors,
                   delay_due, download_offered>>

\* generate_tts for the current row: one call of the service, classified.
GenerateTts ==
    /\ pc = "tts"
    /\ \E reply \in Replies :
        /\ pcm_data' = TtsResult(reply, idx)
        /\ errors' = IF TtsRaises(reply)
                     THEN Set(errors, idx + 1, errors[idx + 1] + 1)
                     ELSE errors
    /\ calls' = Set(calls, idx + 1, calls[idx + 1] + 1)
    /\ delay_due' = TRUE
    /\ pc' = "record"
    /\ UNCHANGED <<session, idx, generated_files, temp_dir, progress_bar, status_text,
                   outcome, warnings, download_offered>>

\* The artifact of the current row.
Artifact(row, i, data) ==
    [filename |-> FileName(row, i),
     text     |-> TextPreview(row.text.val),
     data     |-> data]

\* Writing a file: a later write under the same name replaces the earlier one.
WriteFile(dir, filename, data) ==
    {f \in dir : f.filename # filename} \cup {[filename |-> filename, data |-> data]}

\* The artifact put in front of the list instead of at its end.
appendInFront(files, art) == <<art>> \o files

\* generated_files.append
append(files, art) == Append(files, art)

\* if pcm_data: build the container, write the file, append the artifact.
\* A fault of open() or of len(row['text']) leaves main() as an uncaught exception.
Record ==
    /\ pc = "record"
    /\ IF Truthy(pcm_data)
       THEN LET wave_buffer == create_wave_file(pcm_data.data)
                filename == FileName(df[idx + 1], idx)
            IN  IF OpenFaults(filename) \/ LenFaults(df[idx + 1].text)
                THEN /\ pc' = "crashed"
                     /\ outcome' = Set(outcome, idx + 1, "faulted")
                     /\ temp_dir' = {}
                     /\ UNCHANGED generated_files
                ELSE /\ pc' = "sleep"
                     /\ temp_dir' = WriteFile(temp_dir, filename, wave_buffer)
                     /\ generated_files' =
                            append(generated_files, Artifact(df[idx + 1], idx, wave_buffer))
                     /\ outcome' = Set(outcome, idx + 1, "ok")
       ELSE /\ pc' = "sleep"
            /\ outcome' = Set(outcome, idx + 1, "failed")
            /\ UNCHANGED <<generated_files, temp_dir>>
    /\ UNCHANGED <<session, idx, pcm_data, progress_bar, status_text, calls, warnings,
                   errors, delay_due, download_offered>>

\* The loop going to the next row with the sleep left out.
SleepLeftOut ==
    /\ pc = "sleep"
    /\ pc' = AfterRow(idx)
    /\ idx' = idx + 1
    /\ pcm_data' = None
    /\ UNCHANGED <<session, generated_files, temp_dir, progress_bar, status_text,
                   outcome, calls, warnings, errors, delay_due, download_offered>>

\* time.sleep(1.5), then the next row.
Sleep ==
    /\ pc = "sleep"
    /\ delay_due' = FALSE
    /\ pc' = AfterRow(idx)
    /\ idx' = idx + 1
    /\ pcm_data' = None
    /\ UNCHANGED <<session, generated_files, temp_dir, progress_bar, status_text,
                   outcome, calls, warnings, errors, download_offered>>

\* After the loop: progress 1.0 and the completion text.
Complete ==
    /\ pc = "complete"
    /\ progress_bar' = Ratio(1, 1)
    /\ status_text' = CompleteStatus
    /\ pc' = "store"
    /\ UNCHANGED <<session, idx, generated_files, pcm_data, temp_dir, outcome, calls,
                   warnings, errors, delay_due, download_offered>>

\* An entry replacing the earlier entry of the same name.
writestrReplacing(entries, filename, data) ==
    Append(SelectSeq(entries, LAMBDA e : e.filename # filename),
           [filename |-> filename, data |-> data])

\* zip_file.writestr: an entry is added at the end, also under a name already used.
writestr(entries, filename, data) ==
    Append(entries, [filename |-> filename, data |-> data])

RECURSIVE ZipOf(_)
ZipOf(files) ==
    IF files = <<>> THEN <<>>
    ELSE writestr(ZipOf(SubSeq(files, 1, Len(files) - 1)),
                  files[Len(files)].filename, files[Len(files)].data)

\* The list is stored; the archive is built and stored only for a non-empty list.
StoreResults ==
    /\ pc = "store"
    /\ session_generated_files' = generated_files
    /\ IF generated_files # <<>>
       THEN /\ zip_data' = [present |-> TRUE, entries |-> ZipOf(generated_files)]
            /\ zip_same_run' = TRUE
       ELSE /\ zip_same_run' = FALSE
            /\ UNCHANGED zip_data
    /\ temp_dir' = {}
    /\ pc' = "display"
    /\ UNCHANGED <<df_loaded, df, idx, generated_files, pcm_data, progress_bar,
                   status_text, outcome, calls, warnings, errors, delay_due,
                   download_offered>>

\* The results section at the end of the script run that ran the batch.
Display ==
    /\ pc = "display"
    /\ download_offered' = ZipButtonShown(session_generated_files, zip_data)
    /\ pc' = "idle"
    /\ NoLocals
    /\ UNCHANGED session

\* After an uncaught exception the next interaction runs the script anew.
Rerun ==
    /\ pc = "crashed"
    /\ download_offered' = ZipButtonShown(session_generated_files, zip_data)
    /\ pc' = "idle"
    /\ NoLocals
    /\ UNCHANGED session

Next ==
    \/ Upload
    \/ Click
    \/ RowStart
    \/ GenerateTts
    \/ Record
    \/ Sleep
    \/ Complete
    \/ StoreResults
    \/ Display
    \/ Rerun

Spec == Init /\ [][Next]_vars

-----------------------------------------------------------------------------
\* Notions the properties are stated with.

Rows == DOMAIN outcome

InBatch == pc \in {"row", "tts", "record", "sleep", "complete", "store", "display", "crashed"}

\* The batch run is over: its results are stored, or it was left by an exception.
RunOver == pc \in {"display", "crashed"}

SameRatio(p, q) == p[1] * q[2] = q[1] * p[2]

IsPrefix(s, t) == Len(s) <= Len(t) /\ SubSeq(t, 1, Len(s)) = s

\* The artifact row k gives when its call returns that row's audio.
ArtifactOfRow(k) == Artifact(df[k], k - 1, create_wave_file(Samples(k - 1)))

\* The artifacts of the rows 1..n that ended "ok", in row order.
RECURSIVE ArtifactsUpTo(_)
ArtifactsUpTo(n) ==
    IF n = 0 THEN <<>>
    ELSE IF outcome[n] = "ok"
         THEN Append(ArtifactsUpTo(n - 1), ArtifactOfRow(n))
         ELSE ArtifactsUpTo(n - 1)

\* The rows whose synthesis call returned audio.
CallSucceeded(k) == outcome[k] \in {"ok", "faulted"}

\* Two artifacts of the running batch carry the same filename.
DuplicateNames ==
    \E i, j \in 1..Len(generated_files) :
        i < j /\ generated_files[i].filename = generated_files[j].filename

\* The last artifact of the running batch with that filename.
LastNamed(name) ==
    LET ms == {m \in 1..Len(generated_files) : generated_files[m].filename = name}
    IN  generated_files[CHOOSE m \in ms : \A q \in ms : q <= m]

EntriesNamed(name) == SelectSeq(zip_data.entries, LAMBDA e : e.filename = name)

-----------------------------------------------------------------------------
\* C1: a batch run, whatever rows fault or come back empty at the synthesis
\* call, ends only after every row was visited; then every row whose call
\* succeeded has exactly one artifact, every faulting or empty row has none
\* and counts as failed, and the stored archive has one entry per artifact.
C1_FailureIsolation ==
    RunOver =>
        /\ \A k \in Rows : outcome[k] # "pending"
        /\ Len(generated_files) = Cardinality({k \in Rows : CallSucceeded(k)})
        /\ generated_files = ArtifactsUpTo(Len(df))
        /\ \A k \in Rows : calls[k] = 1 /\ ~CallSucceeded(k) => outcome[k] = "failed"
        /\ generated_files # <<>> =>
              zip_data.present /\ Len(zip_data.entries) = Len(generated_files)

\* C2: when a batch run is over, every row with missing or blank text was
\* never sent to the service, has no artifact and has exactly one skip
\* notification, and every other row was sent exactly once.
C2_InvokedOncePerRow ==
    RunOver =>
        \A k \in Rows :
            IF IsBlank(df[k].text)
            THEN calls[k] = 0 /\ warnings[k] = 1 /\ outcome[k] = "skipped"
            ELSE calls[k] = 1

\* C3: throughout a batch run and at its end the artifact list is exactly the
\* artifacts of the rows that succeeded so far, in row order, with nothing for
\* skipped or failed rows; a step of the run only ever extends the list at its
\* end; the list stored at the end is that list.
C3_OrderPreserved ==
    /\ [](InBatch => generated_files = ArtifactsUpTo(Len(df)))
    /\ [](pc = "display" => session_generated_files = generated_files)
    /\ [][InBatch /\ pc' # "idle" => IsPrefix(generated_files, generated_files')]_vars

C3_Witness ==
    /\ pc = "display"
    /\ Len(df) = 3
    /\ outcome = <<"ok", "failed", "ok">>
    /\ Len(session_generated_files) = 2

C5_ProgressAfterOutcome ==
    status_text.kind = "generating" => outcome[status_text.k] # "pending"

\* C5 amended: the progress k/N and the status line naming row k's resolved
\* filename are on display from before row k's call until its outcome is
\* determined, for every row the run reaches; completion is on display only
\* when every row has an outcome, with ratio 1.0.
C5_ProgressBeforeOutcome ==
    /\ [](pc \in {"tts", "record", "sleep", "crashed"} =>
            /\ status_text =
                   Generating(idx + 1, Len(df), DisplayFilename(df[idx + 1], idx))
            /\ SameRatio(progress_bar, Ratio(idx + 1, Len(df))))
    /\ [][InBatch /\ pc' # "idle" =>
            \A k \in Rows :
                outcome[k] = "pending" /\ outcome'[k] # "pending" =>
                    /\ status_text' =
                           Generating(k, Len(df), DisplayFilename(df[k], k - 1))
                    /\ SameRatio(progress_bar', Ratio(k, Len(df)))]_vars
    /\ [](status_text = CompleteStatus =>
            /\ SameRatio(progress_bar, Ratio(1, 1))
            /\ \A k \in Rows : outcome[k] # "pending")

C5_Witness ==
    /\ pc = "tts"
    /\ idx = 1
    /\ status_text.kind = "generating"
    /\ status_text.k = 2
    /\ outcome[2] = "pending"
    /\ outcome[1] = "skipped"

\* C6: every row recorded as failed has a notification of its own in the
\* user interface.
C6_FailureNotified ==
    \A k \in Rows : outcome[k] = "failed" => errors[k] + warnings[k] >= 1

\* C7: a fault while recording the artifact of a row whose call succeeded
\* does not end the run.
C7_FaultContained ==
    \A k \in Rows : outcome[k] = "faulted" => pc # "crashed"

\* C8: when a completed run produced no artifacts, session state holds no
\* archive.
C8_NoArchiveAfterEmptyRun ==
    pc = "display" /\ generated_files = <<>> => ~zip_data.present

\* C9: the ZIP download is on display only when the stored artifact list is
\* non-empty, and then the stored archive was assembled, from that list, by
\* the run that stored the list.
C9_DownloadNeedsArtifacts ==
    download_offered =>
        /\ session_generated_files # <<>>
        /\ zip_data.present
        /\ zip_same_run
        /\ Len(zip_data.entries) = Len(session_generated_files)
        /\ \A i \in 1..Len(session_generated_files) :
              /\ zip_data.entries[i].filename = session_generated_files[i].filename
              /\ zip_data.entries[i].data = session_generated_files[i].data

C9_Witness ==
    /\ download_offered
    /\ pc = "idle"
    /\ Len(session_generated_files) >= 1

\* C10 as stated: when two artifacts of a run carry the same filename, the
\* stored archive has a single entry under that name, with the later row's
\* bytes.
C10_LaterOverwrites ==
    pc = "display" =>
        \A i, j \in 1..Len(generated_files) :
            i < j /\ generated_files[i].filename = generated_files[j].filename =>
                /\ Len(EntriesNamed(generated_files[j].filename)) = 1
                /\ EntriesNamed(generated_files[j].filename)[1].data =
                       LastNamed(generated_files[j].filename).data

\* C10 amended: rows resolving to the same filename are all recorded as
\* successes; the temporary directory keeps one file per name, with the bytes
\* of the latest row of that name; the stored archive has one entry per
\* artifact, in row order, each with its own row's name and bytes, so a
\* repeated name has as many entries as rows.
C10_ArchiveKeepsBoth ==
    /\ pc \in {"row", "tts", "record", "sleep", "complete", "store"} =>
          /\ \A f, g \in temp_dir : f.filename = g.filename => f = g
          /\ \A i \in 1..Len(generated_files) :
                \E f \in temp_dir :
                    /\ f.filename = generated_files[i].filename
                    /\ \E m \in i..Len(generated_files) :
                          /\ generated_files[m].filename = f.filename
                          /\ generated_files[m].data = f.data
                          /\ \A q \in (m + 1)..Len(generated_files) :
                                generated_files[q].filename # f.filename
    /\ pc = "display" /\ generated_files # <<>> =>
          /\ Len(zip_data.entries) = Len(generated_files)
          /\ \A i \in 1..Len(generated_files) :
                /\ zip_data.entries[i].filename = generated_files[i].filename
                /\ zip_data.entries[i].data = generated_files[i].data

C10_Witness ==
    /\ pc = "display"
    /\ DuplicateNames
    /\ Len(zip_data.entries) = 2

====
